---- MODULE Spec2Model ----
(***************************************************************************)
(* Model of pcse/fileinput/cabo_reader.py: CABOFileReader.__init__ and the *)
(* module-level helpers it calls.  Text is a sequence of one-character     *)
(* strings; a file is a sequence of lines as returned by readlines().      *)
(***************************************************************************)
EXTENDS Integers, Sequences, FiniteSets, TLC

(* ---------------------------------------------------------------- *)
(* Character classes used by the regular expressions and by strip() *)
(* ---------------------------------------------------------------- *)
Digits == {"0", "1", "2", "3", "4", "5", "6", "7", "8", "9"}

Letters ==
  {"a", "b", "c", "d", "e", "f", "g", "h", "i", "j", "k", "l", "m",
   "n", "o", "p", "q", "r", "s", "t", "u", "v", "w", "x", "y", "z",
   "A", "B", "C", "D", "E", "F", "G", "H", "I", "J", "K", "L", "M",
   "N", "O", "P", "Q", "R", "S", "T", "U", "V", "W", "X", "Y", "Z"}

\* [\s]
Space == {" ", "\t", "\n", "\r"}

\* [a-zA-Z0-9_]
NameChars == Letters \cup Digits \cup {"_"}

\* [a-zA-Z0-9_.\-]
ScalarValueChars == NameChars \cup {".", "-"}

\* [0-9,.\s\-+]
TableValueChars == Digits \cup Space \cup {",", ".", "-", "+"}

Min(S) == CHOOSE x \in S : \A y \in S : x <= y
Max(S) == CHOOSE x \in S : \A y \in S : x >= y

(* ------------------------------------------- *)
(* Python string methods used by the reader    *)
(* ------------------------------------------- *)

\* str.strip(chars): drop leading and trailing characters that are in chars
StripChars(s, chars) ==
  LET keep == {i \in 1..Len(s) : s[i] \notin chars}
  IN  IF keep = {} THEN << >> ELSE SubSeq(s, Min(keep), Max(keep))

\* str.strip(): drop leading and trailing whitespace
Strip(s) == StripChars(s, Space)

\* str.replace(c, ""): delete every occurrence of the character c
RemoveChar(s, c) == SelectSeq(s, LAMBDA x : x # c)

\* c in s
Contains(s, c) == \E i \in 1..Len(s) : s[i] = c

\* s.find(c): first index of c (1-based), 0 when absent
Find(s, c) ==
  LET hits == {i \in 1..Len(s) : s[i] = c}
  IN  IF hits = {} THEN 0 ELSE Min(hits)

\* s.split(c): all the pieces between occurrences of c
RECURSIVE Split(_, _)
SplitAt(s, c, p) ==
  IF p = 0 THEN << s >>
  ELSE << SubSeq(s, 1, p - 1) >> \o Split(SubSeq(s, p + 1, Len(s)), c)

Split(s, c) == SplitAt(s, c, Find(s, c))

\* s.split(c, 1): split at the first occurrence of c only
SplitFirstAt(s, p) ==
  IF p = 0 THEN << s >>
  ELSE << SubSeq(s, 1, p - 1), SubSeq(s, p + 1, Len(s)) >>

SplitFirst(s, c) == SplitFirstAt(s, Find(s, c))

\* " ".join(data)
RECURSIVE JoinSpace(_)
JoinSpace(data) ==
  IF Len(data) = 0 THEN << >>
  ELSE IF Len(data) = 1 THEN data[1]
  ELSE data[1] \o << " " >> \o JoinSpace(Tail(data))

(* ------------------------------------------- *)
(* Cleanup helpers, lines 17-36                *)
(* ------------------------------------------- *)

\* [line.strip(" \n\r") for line in filecontents]
remove_whitespace(fc) ==
  [i \in 1..Len(fc) |-> StripChars(fc[i], {" ", "\n", "\r"})]

\* [line for line in filecontents if len(line) > 0]
remove_empty_lines(fc) == SelectSeq(fc, LAMBDA line : Len(line) > 0)

\* [line.split("!")[0] for line in filecontents]
remove_inline_comments(fc) ==
  [i \in 1..Len(fc) |-> Split(fc[i], "!")[1]]

\* line.startswith("*")
is_comment(line) == Len(line) >= 1 /\ line[1] = "*"

(* ------------------------------------------- *)
(* _find_header, lines 38-59                   *)
(* ------------------------------------------- *)

\* line_is_comment.index(False); 0 stands for the ValueError
body_start(fc) ==
  LET nc == {i \in 1..Len(fc) : ~is_comment(fc[i])}
  IN  IF nc = {} THEN 0 ELSE Min(nc)

\* variant: comment lines are left in the body
body_filter_keep(b) == b

\* body = [line for line in body if not _is_comment(line)]
body_filter(b) == SelectSeq(b, LAMBDA line : ~is_comment(line))

\* lines 53-59, bs being body_start
split_at(fc, bs) ==
  [header |-> SubSeq(fc, 1, bs - 1),
   body   |-> body_filter(SubSeq(fc, bs, Len(fc)))]

find_header(fc) == split_at(fc, body_start(fc))

(* ------------------------------------------- *)
(* _find_parameter_sections, lines 61-78       *)
(* ------------------------------------------- *)

\* variant: the comma is tested before the quote
line_category_comma_first(line) ==
  IF Contains(line, ",") THEN "table"
  ELSE IF Contains(line, "'") THEN "string"
  ELSE "scalar"

\* the if / elif / else of the loop body
line_category(line) ==
  IF Contains(line, "'") THEN "string"
  ELSE IF Contains(line, ",") THEN "table"
  ELSE "scalar"

\* lines 68-73: line is appended to the list that cat selects
put_line(acc, line, cat) ==
  [scalars |-> IF cat = "scalar" THEN Append(acc.scalars, line) ELSE acc.scalars,
   strings |-> IF cat = "string" THEN Append(acc.strings, line) ELSE acc.strings,
   tables  |-> IF cat = "table" THEN Append(acc.tables, line) ELSE acc.tables]

\* the loop over the body
RECURSIVE sort_lines(_, _)
sort_lines(b, acc) ==
  IF Len(b) = 0 THEN acc
  ELSE sort_lines(Tail(b), put_line(acc, Head(b), line_category(Head(b))))

\* line 76: each list is joined into one text
join_lists(lists) ==
  [lists   |-> lists,
   scalars |-> JoinSpace(lists.scalars),
   strings |-> JoinSpace(lists.strings),
   tables  |-> JoinSpace(lists.tables)]

find_parameter_sections(b) ==
  join_lists(sort_lines(b, [scalars |-> << >>, strings |-> << >>,
                            tables |-> << >>]))

(* ------------------------------------------- *)
(* Regular expressions, lines 80-83            *)
(* ------------------------------------------- *)

\* A pattern is  [a-zA-Z0-9_]+[\s]*=[\s]*  followed by its value part:
\* a greedy run of a character class, or a lazily matched '...'.
re_scalar == [quoted |-> FALSE, cls |-> ScalarValueChars]
re_table  == [quoted |-> FALSE, cls |-> TableValueChars]
re_string == [quoted |-> TRUE,  cls |-> {}]

\* first index >= i whose character is not in cls (Len(s) + 1 when none)
RunEnd(s, i, cls) ==
  CHOOSE j \in i..(Len(s) + 1) :
    /\ j = Len(s) + 1 \/ s[j] \notin cls
    /\ \A k \in i..(j - 1) : s[k] \in cls

\* first index >= i whose character is in cls (Len(s) + 1 when none)
FirstIn(s, i, cls) ==
  CHOOSE j \in i..(Len(s) + 1) :
    /\ j = Len(s) + 1 \/ s[j] \in cls
    /\ \A k \in i..(j - 1) : s[k] \notin cls

\* '.*?' : c is the first quote or newline after the opening quote at w;
\* '.' does not match a newline
MatchClose(s, c) == IF c <= Len(s) /\ s[c] = "'" THEN c + 1 ELSE 0

\* [\s]*' : w is where the whitespace after '=' ends
MatchQuoted(s, w) ==
  IF w > Len(s) \/ s[w] # "'" THEN 0
  ELSE MatchClose(s, FirstIn(s, w + 1, {"'", "\n"}))

\* [\s]*[cls]+ : the whitespace after '=' runs from p to w, the class run
\* from w to v; an empty class run makes [\s]* give back one character
MatchClass(re, s, p, w, v) ==
  IF v > w THEN v
  ELSE IF w > p /\ s[w - 1] \in re.cls THEN w
  ELSE 0

MatchValue(re, s, p, w) ==
  IF re.quoted THEN MatchQuoted(s, w)
  ELSE MatchClass(re, s, p, w, RunEnd(s, w, re.cls))

\* = : n2 is where the whitespace after the name ends
MatchEquals(re, s, n2) ==
  IF n2 > Len(s) \/ s[n2] # "=" THEN 0
  ELSE MatchValue(re, s, n2 + 1, RunEnd(s, n2 + 1, Space))

\* [a-zA-Z0-9_]+[\s]* : n1 is where the name that starts at i ends
MatchName(re, s, i, n1) ==
  IF n1 = i THEN 0 ELSE MatchEquals(re, s, RunEnd(s, n1, Space))

\* re.match of the pattern at position i: the index just after the match,
\* or 0 when the pattern does not match there.
MatchEnd(re, s, i) == MatchName(re, s, i, RunEnd(s, i, NameChars))

\* re.findall(regexp, s) scanning from position i; e is MatchEnd at i
RECURSIVE FindallFrom(_, _, _)
FindallStep(re, s, i, e) ==
  IF e = 0 THEN FindallFrom(re, s, i + 1)
  ELSE << SubSeq(s, i, e - 1) >> \o FindallFrom(re, s, e)

FindallFrom(re, s, i) ==
  IF i > Len(s) THEN << >> ELSE FindallStep(re, s, i, MatchEnd(re, s, i))

Findall(re, s) == FindallFrom(re, s, 1)

\* re.sub(regexp, "", s) scanning from position i; e is MatchEnd at i
RECURSIVE SubFrom(_, _, _)
SubStep(re, s, i, e) ==
  IF e = 0 THEN << s[i] >> \o SubFrom(re, s, i + 1)
  ELSE SubFrom(re, s, e)

SubFrom(re, s, i) ==
  IF i > Len(s) THEN << >> ELSE SubStep(re, s, i, MatchEnd(re, s, i))

Sub(re, s) == SubFrom(re, s, 1)

(* ------------------------------------------- *)
(* _find_individual_pardefs, lines 85-101      *)
(* ------------------------------------------- *)

\* rest = rest.replace(";", "").strip()
residue(re, parsections) == Strip(RemoveChar(Sub(re, parsections), ";"))

\* variant: the residue is never looked at
residue_never_fails(rest) == FALSE

\* len(rest) > 0 raises
residue_fails(rest) == Len(rest) > 0

find_individual_pardefs(re, parsections) ==
  [defs   |-> Findall(re, parsections),
   failed |-> residue_fails(residue(re, parsections))]

(* ------------------------------------------- *)
(* Python int() and float() on text            *)
(* ------------------------------------------- *)

DigitValue(c) ==
  CASE c = "0" -> 0 [] c = "1" -> 1 [] c = "2" -> 2 [] c = "3" -> 3
    [] c = "4" -> 4 [] c = "5" -> 5 [] c = "6" -> 6 [] c = "7" -> 7
    [] c = "8" -> 8 [] c = "9" -> 9

\* a digit part: digits, with single underscores allowed between digits
DigitGroupOK(d) ==
  /\ Len(d) >= 1
  /\ \A k \in 1..Len(d) : d[k] \in Digits \cup {"_"}
  /\ d[1] \in Digits
  /\ d[Len(d)] \in Digits
  /\ \A k \in 1..(Len(d) - 1) : ~(d[k] = "_" /\ d[k + 1] = "_")

RECURSIVE DigitsVal(_, _)
DigitsVal(d, acc) ==
  IF Len(d) = 0 THEN acc
  ELSE IF Head(d) = "_" THEN DigitsVal(Tail(d), acc)
  ELSE DigitsVal(Tail(d), 10 * acc + DigitValue(Head(d)))

HasSign(t) == Len(t) >= 1 /\ t[1] \in {"+", "-"}
Unsigned(t) == IF HasSign(t) THEN Tail(t) ELSE t
SignOf(t) == IF Len(t) >= 1 /\ t[1] = "-" THEN -1 ELSE 1

\* int(s): surrounding whitespace, an optional sign, a digit part
IntOfStripped(t) ==
  IF DigitGroupOK(Unsigned(t))
    THEN [ok |-> TRUE, v |-> SignOf(t) * DigitsVal(Unsigned(t), 0)]
    ELSE [ok |-> FALSE, v |-> 0]

PyInt(s) == IntOfStripped(Strip(s))

\* A float is kept as the exact decimal m * 10^(-e) with m not a multiple
\* of 10 (0 is m = 0, e = 0), so that equal numbers are equal records.
\* The texts of the model are short: no rounding, no overflow to inf.
RECURSIVE Normalise(_, _)
Normalise(m, e) ==
  IF m = 0 THEN [ok |-> TRUE, m |-> 0, e |-> 0]
  ELSE IF m % 10 = 0 THEN Normalise(m \div 10, e - 1)
  ELSE [ok |-> TRUE, m |-> m, e |-> e]

NotAFloat == [ok |-> FALSE, m |-> 0, e |-> 0]

\* value of the exponent text (empty when there is no exponent)
ExponentVal(expo) ==
  IF Len(expo) = 0 THEN 0 ELSE SignOf(expo) * DigitsVal(Unsigned(expo), 0)

\* ip . fp e expo : integer part, fraction part and exponent of the text
FloatOfParts(sign, ip, fp, hase, expo) ==
  IF /\ Len(ip) + Len(fp) > 0
     /\ Len(ip) = 0 \/ DigitGroupOK(ip)
     /\ Len(fp) = 0 \/ DigitGroupOK(fp)
     /\ hase => DigitGroupOK(Unsigned(expo))
    THEN Normalise(sign * DigitsVal(ip \o fp, 0),
                   Len(RemoveChar(fp, "_")) - ExponentVal(expo))
    ELSE NotAFloat

\* mant is cut at its first '.', at index dp (Len(mant) + 1 when none)
FloatCut(sign, mant, dp, hase, expo) ==
  FloatOfParts(sign, SubSeq(mant, 1, dp - 1), SubSeq(mant, dp + 1, Len(mant)),
               hase, expo)

FloatOfMantissa(sign, mant, hase, expo) ==
  FloatCut(sign, mant, FirstIn(mant, 1, {"."}), hase, expo)

\* r is cut at its first 'e' or 'E', at index ep (Len(r) + 1 when none)
FloatOfUnsigned(sign, r, ep) ==
  FloatOfMantissa(sign, SubSeq(r, 1, ep - 1), ep <= Len(r),
                  SubSeq(r, ep + 1, Len(r)))

FloatOfStripped(t) ==
  FloatOfUnsigned(SignOf(t), Unsigned(t), FirstIn(Unsigned(t), 1, {"e", "E"}))

\* float(s): surrounding whitespace, an optional sign, then
\* digitpart [. [digitpart]] | . digitpart, then an optional exponent.
\* (The words inf and nan hold neither '.' nor a character of the table
\* class, so the reader never passes them to float().)
PyFloat(s) == FloatOfStripped(Strip(s))

(* ------------------------------------------- *)
(* Values stored in the mapping                *)
(* ------------------------------------------- *)
IntValue(v)    == [t |-> "int", m |-> v, e |-> 0, str |-> << >>, list |-> << >>]
FloatValue(fl) == [t |-> "float", m |-> fl.m, e |-> fl.e, str |-> << >>,
                   list |-> << >>]
StrValue(s)    == [t |-> "str", m |-> 0, e |-> 0, str |-> s, list |-> << >>]
ListValue(l)   == [t |-> "list", m |-> 0, e |-> 0, str |-> << >>, list |-> l]

\* variant: an existing key keeps its first value
SetItem_keep_first(d, k, v) ==
  [n \in DOMAIN d \cup {k} |-> IF n \in DOMAIN d THEN d[n] ELSE v]

\* self[parname] = value
SetItem(d, k, v) ==
  [n \in DOMAIN d \cup {k} |-> IF n = k THEN v ELSE d[n]]

EmptyDict == [n \in {} |-> IntValue(0)]

(* ------------------------------------------- *)
(* CABOFileReader._parse_table_values, 159-173 *)
(* ------------------------------------------- *)

\* for vstr in valuestrs: tblvalues.append(float(vstr)); fl is float(vstr)
\* of the first of valuestrs
RECURSIVE float_all(_, _)
float_next(valuestrs, acc, fl) ==
  IF ~fl.ok THEN [exc |-> "ValueError", value |-> << >>]
  ELSE float_all(Tail(valuestrs), Append(acc, [m |-> fl.m, e |-> fl.e]))

float_all(valuestrs, acc) ==
  IF Len(valuestrs) = 0 THEN [exc |-> "none", value |-> acc]
  ELSE float_next(valuestrs, acc, PyFloat(Head(valuestrs)))

\* len(valuestrs) < 4
too_short(n) == n < 4

\* variant: the parity test is left out
table_values_no_parity(valuestrs) ==
  IF too_short(Len(valuestrs))
    THEN [exc |-> "LengthError", value |-> << >>]
  ELSE float_all(valuestrs, << >>)

\* lines 164-173, on valuestrs = tmpstr.split(",")
table_values(valuestrs) ==
  IF too_short(Len(valuestrs))
    THEN [exc |-> "LengthError", value |-> << >>]
  ELSE IF Len(valuestrs) % 2 # 0
    THEN [exc |-> "XYPairsError", value |-> << >>]
  ELSE float_all(valuestrs, << >>)

parse_table_values(parstr) == table_values(Split(Strip(parstr), ","))

(* ------------------------------------------- *)
(* The three loops of __init__, lines 200-241  *)
(* ------------------------------------------- *)

\* Lines 6-12: LengthError is declared with an empty body on top of
\* PCSEError, the package's plain Exception subclass; an instance built as
\* LengthError((n, valuestrs)) has .args and no attribute named value.
length_error_has_value == FALSE

\* lines 233-237: the handler formats exc.value[0] into the message
length_error_handler ==
  IF length_error_has_value THEN "TableLength" ELSE "AttributeError"

Stored(parname, value) == [err |-> "none", name |-> parname, value |-> value]
RaisedIn(kind, parname) == [err |-> kind, name |-> parname, value |-> IntValue(0)]

\* variant: every scalar is read as an integer
scalar_is_float_never(valuestr) == FALSE

\* lines 205-208: the type of a scalar is chosen by the '.' in its text
scalar_is_float(valuestr) == Find(valuestr, ".") # 0

\* line 206 and 209-212, fl being float(valuestr)
scalar_float(parname, fl) ==
  IF fl.ok THEN Stored(parname, FloatValue(fl))
  ELSE RaisedIn("ValueParse", parname)

\* line 208 and 209-212, n being int(valuestr)
scalar_int(parname, n) ==
  IF n.ok THEN Stored(parname, IntValue(n.v))
  ELSE RaisedIn("ValueParse", parname)

\* lines 203-212 on parts = parstr.split("="); the unpacking needs two parts
scalar_parts(parts) ==
  IF Len(parts) # 2 THEN RaisedIn("ValueParse", << >>)
  ELSE IF scalar_is_float(parts[2])
    THEN scalar_float(Strip(parts[1]), PyFloat(parts[2]))
    ELSE scalar_int(Strip(parts[1]), PyInt(parts[2]))

\* body of "for parstr in scalar_defs", lines 202-212
parse_scalar(parstr) == scalar_parts(Split(parstr, "="))

\* lines 216-222 on parts = parstr.split("=", 1)
string_parts(parts) ==
  IF Len(parts) # 2 THEN RaisedIn("ValueParse", << >>)
  ELSE Stored(Strip(parts[1]),
              StrValue(RemoveChar(RemoveChar(parts[2], "'"), "\"")))

\* body of "for parstr in string_defs", lines 215-222
parse_string(parstr) == string_parts(SplitFirst(parstr, "="))

\* lines 227-241, r being the outcome of _parse_table_values
table_result(parname, r) ==
  CASE r.exc = "none" -> Stored(parname, ListValue(r.value))
    [] r.exc = "ValueError" -> RaisedIn("ValueParse", parname)
    [] r.exc = "LengthError" -> RaisedIn(length_error_handler, parname)
    [] r.exc = "XYPairsError" -> RaisedIn("TableParity", parname)

\* lines 225-241 on parts = parstr.split("="); the unpacking is outside try
table_parts(parts) ==
  IF Len(parts) # 2 THEN RaisedIn("ValueError", << >>)
  ELSE table_result(Strip(parts[1]), parse_table_values(parts[2]))

\* body of "for parstr in table_defs", lines 225-241
parse_table(parstr) == table_parts(Split(parstr, "="))

(* ------------------------------------------- *)
(* The files the reader is run on              *)
(* ------------------------------------------- *)

\* most lines of a file assembled from BaseLines
MaxLines == 3
\* longest value text of the one-line scalar files
MaxValueLen == 4
\* most comma-separated tokens of the one-line table files
MaxTokens == 5
\* longest quoted text of the one-line string files
MaxTextLen == 3

\* all texts of 1..n characters over an alphabet
Words(alphabet, n) == UNION {[1..k -> alphabet] : k \in 1..n}

RECURSIVE JoinComma(_)
JoinComma(ts) ==
  IF Len(ts) = 0 THEN << >>
  ELSE IF Len(ts) = 1 THEN ts[1]
  ELSE ts[1] \o << "," >> \o JoinComma(Tail(ts))

\* readlines() keeps the line terminator of every line
WithNewlines(f) == [k \in 1..Len(f) |-> f[k] \o << "\n" >>]

BaseLines ==
  { << " ", "*", "A", "=", "7" >>,                     \*  *A=7
    << >>,                                             \* blank
    << "!", "c" >>,                                    \* !c
    << ";" >>,                                         \* ;
    << "q", ",", "1" >>,                               \* q,1
    << "A", "=", "1" >>,                               \* A=1
    << "A", " ", "=", " ", "2", ".", "5", " ", "!", "c" >>,   \* A = 2.5 !c
    << "A", "=", "1", ";", "B", "=", "2" >>,           \* A=1;B=2
    << "A", "=", "'", "s", "'" >>,                     \* A='s'
    << "S", "=", "'", "a", ",", "b", "'" >>,           \* S='a,b'
    << "A", "=", "1", ",", "2", ",", "3", ",", "4" >>, \* A=1,2,3,4
    << "T", "=", "1", ",", "2", "," >>,                \* T=1,2,
    << "3", ",", "4" >> }                              \* 3,4

BaseFiles ==
  {WithNewlines(f) : f \in UNION {[1..n -> BaseLines] : n \in 0..MaxLines}}

\* one scalar assignment  A = <text>
ScalarAlphabet == {"0", "1", ".", "-", "+", "e", "_"}

ScalarFiles ==
  {WithNewlines(<< << "A", " ", "=", " " >> \o v >>) :
     v \in Words(ScalarAlphabet, MaxValueLen)}

\* one table assignment  T = t1,t2,...  and the same after  P=<t>;
TableTokens == { << "1" >>, << "-", "2", ".", "5" >>, << " ", "3" >>,
                 << >>, << "." >> }

TableFiles ==
  {WithNewlines(<< << "T", " ", "=" >> \o JoinComma(ts) >>) :
     ts \in UNION {[1..k -> TableTokens] : k \in 2..MaxTokens}}
  \cup
  {WithNewlines(<< << "P", "=" >> \o t \o << ";", "T", "=" >> \o JoinComma(ts) >>) :
     t \in TableTokens, ts \in [1..2 -> TableTokens]}

\* one string assignment  N<eq>'<text>'
StringAlphabet == {"a", "\"", "'", "=", ","}
EqForms == { << "=" >>, << " ", "=" >>, << "=", " " >>, << " ", "=", " " >> }

StringFiles ==
  {WithNewlines(<< << "N" >> \o eq \o << "'" >> \o t \o << "'" >> >>) :
     eq \in EqForms, t \in Words(StringAlphabet, MaxTextLen) \cup { << >> }}

\* a valid table written on two lines, broken after its b-th comma,
\* with or without an inline comment on either line
NumberTokens == { << "1" >>, << "-", "2", ".", "5" >>, << "3" >> }
InlineComments == { << >>, << " ", "!", "c" >> }

SplitTableFiles ==
  {WithNewlines(<< << "T", "=" >> \o JoinComma(SubSeq(ts, 1, b)) \o << "," >> \o c1,
                   << " " >> \o JoinComma(SubSeq(ts, b + 1, Len(ts))) \o c2 >>) :
     ts \in [1..4 -> NumberTokens], b \in 1..3,
     c1 \in InlineComments, c2 \in InlineComments}

Files == BaseFiles \cup ScalarFiles \cup TableFiles \cup StringFiles
         \cup SplitTableFiles

(* ------------------------------------------- *)
(* State of one run of CABOFileReader.__init__ *)
(* ------------------------------------------- *)
VARIABLES
  lines,         \* fp.readlines()
  pc,            \* the statement of __init__ that runs next
  err,           \* "none", or the kind of the exception that was raised
  filecontents,
  header,        \* self.header
  body,
  buckets,       \* the three lists of _find_parameter_sections
  scalars, strings, tables,
  scalar_defs, table_defs, string_defs,
  self,          \* the dict under construction
  i              \* index of the definition the running loop is at

vars == << lines, pc, err, filecontents, header, body, buckets, scalars,
           strings, tables, scalar_defs, table_defs, string_defs, self, i >>

Init ==
  /\ lines \in Files
  /\ pc = "cleanup"
  /\ err = "none"
  /\ filecontents = << >>
  /\ header = << >>
  /\ body = << >>
  /\ buckets = [scalars |-> << >>, strings |-> << >>, tables |-> << >>]
  /\ scalars = << >>
  /\ strings = << >>
  /\ tables = << >>
  /\ scalar_defs = << >>
  /\ table_defs = << >>
  /\ string_defs = << >>
  /\ self = EmptyDict
  /\ i = 0

\* lines 181-187
cleanup(ls) ==
  remove_empty_lines(remove_whitespace(remove_inline_comments(ls)))

Cleanup ==
  /\ pc = "cleanup" /\ err = "none"
  /\ filecontents' = cleanup(lines)
  /\ IF Len(filecontents') = 0
       THEN err' = "EmptyInput" /\ pc' = pc
       ELSE err' = err /\ pc' = "find_header"
  /\ UNCHANGED << lines, header, body, buckets, scalars, strings, tables,
                  scalar_defs, table_defs, string_defs, self, i >>

\* line 190
FindHeader ==
  /\ pc = "find_header" /\ err = "none"
  /\ IF body_start(filecontents) = 0
       THEN err' = "NoBody" /\ pc' = pc /\ UNCHANGED << header, body >>
       ELSE /\ header' = find_header(filecontents).header
            /\ body' = find_header(filecontents).body
            /\ err' = err /\ pc' = "find_sections"
  /\ UNCHANGED << lines, filecontents, buckets, scalars, strings, tables,
                  scalar_defs, table_defs, string_defs, self, i >>

\* line 193
FindParameterSections ==
  /\ pc = "find_sections" /\ err = "none"
  /\ buckets' = find_parameter_sections(body).lists
  /\ scalars' = find_parameter_sections(body).scalars
  /\ strings' = find_parameter_sections(body).strings
  /\ tables' = find_parameter_sections(body).tables
  /\ pc' = "scalar_defs"
  /\ UNCHANGED << lines, err, filecontents, header, body, scalar_defs,
                  table_defs, string_defs, self, i >>

\* where control goes when the loops from the k-th on are still to run
LoopEntry(k, sd, strd, td) ==
  IF k <= 1 /\ Len(sd) > 0 THEN "parse_scalars"
  ELSE IF k <= 2 /\ Len(strd) > 0 THEN "parse_strings"
  ELSE IF k <= 3 /\ Len(td) > 0 THEN "parse_tables"
  ELSE "done"

\* line 196
FindScalarDefs ==
  /\ pc = "scalar_defs" /\ err = "none"
  /\ IF find_individual_pardefs(re_scalar, scalars).failed
       THEN err' = "MalformedDefinition" /\ pc' = pc
            /\ UNCHANGED scalar_defs
       ELSE /\ err' = err /\ pc' = "table_defs"
            /\ scalar_defs' = find_individual_pardefs(re_scalar, scalars).defs
  /\ UNCHANGED << lines, filecontents, header, body, buckets, scalars,
                  strings, tables, table_defs, string_defs, self, i >>

\* line 197
FindTableDefs ==
  /\ pc = "table_defs" /\ err = "none"
  /\ IF find_individual_pardefs(re_table, tables).failed
       THEN err' = "MalformedDefinition" /\ pc' = pc
            /\ UNCHANGED table_defs
       ELSE /\ err' = err /\ pc' = "string_defs"
            /\ table_defs' = find_individual_pardefs(re_table, tables).defs
  /\ UNCHANGED << lines, filecontents, header, body, buckets, scalars,
                  strings, tables, scalar_defs, string_defs, self, i >>

\* line 198, and entry into the first loop that has something to do
FindStringDefs ==
  /\ pc = "string_defs" /\ err = "none"
  /\ IF find_individual_pardefs(re_string, strings).failed
       THEN err' = "MalformedDefinition" /\ pc' = pc
            /\ UNCHANGED << string_defs, i >>
       ELSE /\ err' = err
            /\ string_defs' = find_individual_pardefs(re_string, strings).defs
            /\ pc' = LoopEntry(1, scalar_defs, string_defs', table_defs)
            /\ i' = 1
  /\ UNCHANGED << lines, filecontents, header, body, buckets, scalars,
                  strings, tables, scalar_defs, table_defs, self >>

\* one iteration of a loop over defs: store or raise, then move on
Iterate(r, defs, k) ==
  IF r.err # "none"
    THEN err' = r.err /\ UNCHANGED << pc, self, i >>
    ELSE /\ err' = err
         /\ self' = SetItem(self, r.name, r.value)
         /\ IF i < Len(defs)
              THEN i' = i + 1 /\ pc' = pc
              ELSE i' = 1 /\ pc' = LoopEntry(k + 1, scalar_defs, string_defs,
                                              table_defs)

\* lines 201-212
ParseScalar ==
  /\ pc = "parse_scalars" /\ err = "none"
  /\ Iterate(parse_scalar(scalar_defs[i]), scalar_defs, 1)
  /\ UNCHANGED << lines, filecontents, header, body, buckets, scalars,
                  strings, tables, scalar_defs, table_defs, string_defs >>

\* lines 214-222
ParseString ==
  /\ pc = "parse_strings" /\ err = "none"
  /\ Iterate(parse_string(string_defs[i]), string_defs, 2)
  /\ UNCHANGED << lines, filecontents, header, body, buckets, scalars,
                  strings, tables, scalar_defs, table_defs, string_defs >>

\* lines 224-241
ParseTable ==
  /\ pc = "parse_tables" /\ err = "none"
  /\ Iterate(parse_table(table_defs[i]), table_defs, 3)
  /\ UNCHANGED << lines, filecontents, header, body, buckets, scalars,
                  strings, tables, scalar_defs, table_defs, string_defs >>

Next ==
  \/ Cleanup
  \/ FindHeader
  \/ FindParameterSections
  \/ FindScalarDefs
  \/ FindTableDefs
  \/ FindStringDefs
  \/ ParseScalar
  \/ ParseString
  \/ ParseTable

Spec == Init /\ [][Next]_vars

(* ------------------------------------------- *)
(* The whole of __init__ as one function       *)
(* ------------------------------------------- *)

parse_def(kind, parstr) ==
  IF kind = "scalar" THEN parse_scalar(parstr)
  ELSE IF kind = "string" THEN parse_string(parstr)
  ELSE parse_table(parstr)

\* one of the three for loops, run to its end or to the first exception
RECURSIVE run_loop(_, _, _)
run_loop(kind, defs, acc) ==
  IF acc.err # "none" \/ Len(defs) = 0 THEN acc
  ELSE LET r == parse_def(kind, Head(defs))
       IN  IF r.err # "none" THEN [err |-> r.err, map |-> acc.map]
           ELSE run_loop(kind, Tail(defs),
                         [err |-> "none", map |-> SetItem(acc.map, r.name, r.value)])

Raised(kind) == [err |-> kind, map |-> EmptyDict, header |-> << >>]

Parse(ls) ==
  LET fc  == cleanup(ls)
      hb  == find_header(fc)
      sec == find_parameter_sections(hb.body)
      sd  == find_individual_pardefs(re_scalar, sec.scalars)
      td  == find_individual_pardefs(re_table, sec.tables)
      std == find_individual_pardefs(re_string, sec.strings)
      r1  == run_loop("scalar", sd.defs, [err |-> "none", map |-> EmptyDict])
      r2  == run_loop("string", std.defs, r1)
      r3  == run_loop("table", td.defs, r2)
  IN  IF Len(fc) = 0 THEN Raised("EmptyInput")
      ELSE IF body_start(fc) = 0 THEN Raised("NoBody")
      ELSE IF sd.failed \/ td.failed \/ std.failed
        THEN Raised("MalformedDefinition")
      ELSE IF r3.err # "none" THEN Raised(r3.err)
      ELSE [err |-> "none", map |-> r3.map, header |-> hb.header]

(* ------------------------------------------- *)
(* Vocabulary of the properties                *)
(* ------------------------------------------- *)

PcRank(p) ==
  CASE p = "cleanup" -> 0
    [] p = "find_header" -> 1
    [] p = "find_sections" -> 2
    [] p = "scalar_defs" -> 3
    [] p = "table_defs" -> 4
    [] p = "string_defs" -> 5
    [] p = "parse_scalars" -> 6
    [] p = "parse_strings" -> 7
    [] p = "parse_tables" -> 8
    [] p = "done" -> 9

Terminated == pc = "done" \/ err # "none"

\* what the caller gets: the mapping and header, or the exception
Outcome ==
  IF err # "none" THEN Raised(err)
  ELSE [err |-> "none", map |-> self, header |-> header]

Filler == Space \cup {";"}

\* t is the definitions of defs, in order, with nothing but ';' and
\* whitespace before, between and after them
RECURSIVE Tiles(_, _)
Tiles(t, defs) ==
  LET k == RunEnd(t, 1, Filler)
  IN  IF Len(defs) = 0 THEN k > Len(t)
      ELSE LET d == Head(defs)
           IN  /\ k + Len(d) - 1 <= Len(t)
               /\ SubSeq(t, k, k + Len(d) - 1) = d
               /\ Tiles(SubSeq(t, k + Len(d), Len(t)), Tail(defs))

\* name and value text of a definition, cut at its first '='
NameOf(d) == Strip(SubSeq(d, 1, Find(d, "=") - 1))
ValueText(d) == SubSeq(d, Find(d, "=") + 1, Len(d))
Tokens(d) == Split(ValueText(d), ",")

\* number of definitions of each loop whose value has been stored
StoredScalars ==
  IF pc = "parse_scalars" THEN i - 1
  ELSE IF PcRank(pc) > 6 THEN Len(scalar_defs) ELSE 0
StoredStrings ==
  IF pc = "parse_strings" THEN i - 1
  ELSE IF PcRank(pc) > 7 THEN Len(string_defs) ELSE 0
StoredTables ==
  IF pc = "parse_tables" THEN i - 1
  ELSE IF pc = "done" THEN Len(table_defs) ELSE 0

\* index of the scalar / string / table definition stored by the last step
\* (0 when the last step stored none of that kind)
LastScalar == IF StoredStrings = 0 /\ StoredTables = 0 THEN StoredScalars ELSE 0
LastString == IF StoredTables = 0 THEN StoredStrings ELSE 0
LastTable  == StoredTables

(* ------------------------------------------- *)
(* Properties                                  *)
(* ------------------------------------------- *)

\* C1: residue guard.  Once a category's extraction has been passed, its
\* joined text is exactly its extracted definitions separated by ';' and
\* whitespace (every other character lies in exactly one definition);
\* when the extraction raises the malformed-definition error, some other
\* character is left over and no mapping has been built or is returned.
C1_ResidueGuard ==
  /\ PcRank(pc) > 3 => Tiles(scalars, scalar_defs)
  /\ PcRank(pc) > 4 => Tiles(tables, table_defs)
  /\ PcRank(pc) > 5 => Tiles(strings, string_defs)
  /\ err = "MalformedDefinition" =>
       /\ pc \in {"scalar_defs", "table_defs", "string_defs"}
       /\ self = EmptyDict
       /\ LET re == IF pc = "scalar_defs" THEN re_scalar
                    ELSE IF pc = "table_defs" THEN re_table ELSE re_string
              t  == IF pc = "scalar_defs" THEN scalars
                    ELSE IF pc = "table_defs" THEN tables ELSE strings
          IN  /\ ~Tiles(t, Findall(re, t))
              /\ \E k \in 1..Len(Sub(re, t)) : Sub(re, t)[k] \notin Filler

\* a definition was extracted and yet the guard raised on the leftover
C1_Witness ==
  /\ err = "MalformedDefinition"
  /\ pc = "table_defs"
  /\ Len(Findall(re_table, tables)) >= 1
  /\ Len(scalar_defs) >= 1

\* C2 (as claimed): a table definition with fewer than 4 tokens makes the
\* parse fail with the table-length error.
C2_ShortTableRaisesLengthError ==
  (pc = "parse_tables" /\ Len(Tokens(table_defs[i])) < 4)
    => (Terminated => err = "TableLength")

\* C3: a table definition with at least 4 tokens fails with the parity
\* error when the count is odd, with the value-parse error when the count
\* is even and a token is no number, and is otherwise stored under its
\* name as the numbers of its tokens, in order and of the same length.
C3_TableOutcome ==
  /\ (pc = "parse_tables" /\ err # "none" /\ Len(Tokens(table_defs[i])) >= 4) =>
       LET toks == Tokens(table_defs[i])
       IN  IF Len(toks) % 2 = 1 THEN err = "TableParity"
           ELSE /\ err = "ValueParse"
                /\ \E k \in 1..Len(toks) : ~PyFloat(toks[k]).ok
  /\ (LastTable > 0 /\ Len(Tokens(table_defs[LastTable])) >= 4) =>
       LET d    == table_defs[LastTable]
           toks == Tokens(d)
       IN  /\ Len(toks) % 2 = 0
           /\ \A k \in 1..Len(toks) : PyFloat(toks[k]).ok
           /\ NameOf(d) \in DOMAIN self
           /\ self[NameOf(d)].t = "list"
           /\ Len(self[NameOf(d)].list) = Len(toks)
           /\ \A k \in 1..Len(toks) :
                LET fl == PyFloat(toks[k])
                IN  self[NameOf(d)].list[k] = [m |-> fl.m, e |-> fl.e]

\* a table of four numbers, two of them different, has just been stored
C3_Witness ==
  /\ LastTable > 0
  /\ Len(Tokens(table_defs[LastTable])) = 4
  /\ NameOf(table_defs[LastTable]) \in DOMAIN self
  /\ self[NameOf(table_defs[LastTable])].t = "list"
  /\ self[NameOf(table_defs[LastTable])].list[1] #
       self[NameOf(table_defs[LastTable])].list[2]

\* C4 (as claimed): a file of two lines, the first ending in a comma, whose
\* one-line form is a valid table definition, ends like the one-line form.
SplitTableCase ==
  LET fc == cleanup(lines)
  IN  /\ Len(lines) = 2 /\ Len(fc) = 2
      /\ fc[1][Len(fc[1])] = ","
      /\ line_category(fc[1]) = "table"
      /\ LET one == Parse(<< fc[1] \o fc[2] \o << "\n" >> >>)
         IN  /\ one.err = "none"
             /\ Cardinality(DOMAIN one.map) = 1
             /\ \A n \in DOMAIN one.map : one.map[n].t = "list"

C4_SplitTableParsesLikeOneLine ==
  (Terminated /\ SplitTableCase) =>
     LET fc == cleanup(lines)
     IN  Outcome = Parse(<< fc[1] \o fc[2] \o << "\n" >> >>)

\* C5: every body line is in exactly one list, chosen by quote, else
\* comma, else scalar; each list keeps the order of the body; each joined
\* text is its list joined by single spaces.
HasQuote(line) == \E k \in 1..Len(line) : line[k] = "'"
HasComma(line) == \E k \in 1..Len(line) : line[k] = ","

C5_Classification ==
  PcRank(pc) > 2 =>
    /\ buckets.strings = SelectSeq(body, HasQuote)
    /\ buckets.tables =
         SelectSeq(body, LAMBDA l : ~HasQuote(l) /\ HasComma(l))
    /\ buckets.scalars =
         SelectSeq(body, LAMBDA l : ~HasQuote(l) /\ ~HasComma(l))
    /\ Len(buckets.strings) + Len(buckets.tables) + Len(buckets.scalars)
         = Len(body)
    /\ \A k \in 1..Len(body) :
         (HasQuote(body[k]) /\ HasComma(body[k])) =>
           /\ \E j \in 1..Len(buckets.strings) : buckets.strings[j] = body[k]
           /\ \A j \in 1..Len(buckets.tables) : buckets.tables[j] # body[k]
    /\ scalars = JoinSpace(buckets.scalars)
    /\ strings = JoinSpace(buckets.strings)
    /\ tables = JoinSpace(buckets.tables)

\* a line with a quote and a comma was sorted next to a table line
C5_Witness ==
  /\ PcRank(pc) > 2
  /\ \E k \in 1..Len(body) : HasQuote(body[k]) /\ HasComma(body[k])
  /\ Len(buckets.tables) >= 1
  /\ Len(buckets.scalars) >= 1

\* C6 (as claimed): nothing left after clean-up raises the empty-input
\* error, only comment lines raises the no-body error, and a parse that
\* succeeds returns a mapping with at least one entry.
C6_NeverEmptyMapping ==
  /\ (PcRank(pc) > 0 \/ err # "none") =>
       (Len(filecontents) = 0 <=> (pc = "cleanup" /\ err = "EmptyInput"))
  /\ (PcRank(pc) > 1 \/ (pc = "find_header" /\ err # "none")) =>
       ((\A k \in 1..Len(filecontents) : filecontents[k][1] = "*")
          <=> (pc = "find_header" /\ err = "NoBody"))
  /\ pc = "done" => DOMAIN self # {}

\* C7: the header is the longest prefix of '*' lines of the cleaned file,
\* the body is the other lines that do not start with '*', and the parse
\* ends as the parse of the body lines alone does.
C7_HeaderIsolation ==
  PcRank(pc) > 1 =>
    /\ Len(header) < Len(filecontents)
    /\ \A k \in 1..Len(header) :
         header[k] = filecontents[k] /\ filecontents[k][1] = "*"
    /\ filecontents[Len(header) + 1][1] # "*"
    /\ \A k \in 1..Len(body) : body[k][1] # "*"
    /\ body = SelectSeq(filecontents, LAMBDA l : l[1] # "*")
    /\ Terminated =>
         /\ Outcome.err = Parse(WithNewlines(body)).err
         /\ Outcome.map = Parse(WithNewlines(body)).map
         /\ \A n \in DOMAIN Outcome.map : n[1] # "*"

\* a header, a stored parameter, and a comment line dropped from the body
C7_Witness ==
  /\ pc = "done"
  /\ Len(header) >= 1
  /\ Len(filecontents) > Len(header) + Len(body)
  /\ DOMAIN self # {}

\* C8: a scalar is stored under the trimmed text before '=' as the float
\* its whole value text denotes when the text holds '.', else as the
\* integer it denotes; a text that is no number of that kind raises the
\* value-parse error.
C8_ScalarTyping ==
  /\ (pc = "parse_scalars" /\ err # "none") =>
       /\ err = "ValueParse"
       /\ IF Contains(ValueText(scalar_defs[i]), ".")
            THEN ~PyFloat(ValueText(scalar_defs[i])).ok
            ELSE ~PyInt(ValueText(scalar_defs[i])).ok
  /\ LastScalar > 0 =>
       LET d == scalar_defs[LastScalar]
           n == NameOf(d)
           v == ValueText(d)
       IN  /\ n \in DOMAIN self
           /\ IF Contains(v, ".")
                THEN /\ PyFloat(v).ok
                     /\ self[n] = FloatValue(PyFloat(v))
                ELSE /\ PyInt(v).ok
                     /\ self[n] = IntValue(PyInt(v).v)

\* a float with a fraction has just been stored
C8_Witness ==
  /\ LastScalar > 0
  /\ Contains(ValueText(scalar_defs[LastScalar]), ".")
  /\ NameOf(scalar_defs[LastScalar]) \in DOMAIN self
  /\ self[NameOf(scalar_defs[LastScalar])].t = "float"
  /\ self[NameOf(scalar_defs[LastScalar])].e > 0

\* C9 (as claimed): a string is stored as the characters between its two
\* single quotes, with the double quotes removed.
QuotedText(d) ==
  LET q == {k \in 1..Len(d) : d[k] = "'"}
  IN  SubSeq(d, Min(q) + 1, (CHOOSE k \in q : \A j \in q : j <= k) - 1)

C9_StringIsQuotedText ==
  LastString > 0 =>
    LET d == string_defs[LastString]
    IN  /\ NameOf(d) \in DOMAIN self
        /\ self[NameOf(d)] = StrValue(RemoveChar(QuotedText(d), "\""))

\* C10: when every definition is valid the mapping has one entry per
\* defined name, holding the value of the last definition of that name in
\* the order scalars, then strings, then tables.
AssemblerOrder ==
  [k \in 1..Len(scalar_defs) |-> parse_scalar(scalar_defs[k])]
  \o [k \in 1..Len(string_defs) |-> parse_string(string_defs[k])]
  \o [k \in 1..Len(table_defs) |-> parse_table(table_defs[k])]

C10_LastWriteWins ==
  pc = "done" =>
    /\ DOMAIN self = {AssemblerOrder[k].name : k \in 1..Len(AssemblerOrder)}
    /\ \A n \in DOMAIN self :
         LET ks == {k \in 1..Len(AssemblerOrder) : AssemblerOrder[k].name = n}
         IN  self[n] = AssemblerOrder[CHOOSE k \in ks : \A j \in ks : j <= k].value

\* one name defined as a scalar, as a string and as a table
C10_Witness ==
  /\ pc = "done"
  /\ \E a \in 1..Len(scalar_defs), b \in 1..Len(string_defs),
        c \in 1..Len(table_defs) :
       /\ NameOf(scalar_defs[a]) = NameOf(string_defs[b])
       /\ NameOf(string_defs[b]) = NameOf(table_defs[c])
       /\ self[NameOf(table_defs[c])].t = "list"

====
